---- MODULE Spec2Model ----
(***************************************************************************)
(* A model of daily_report.py (article summarisation, impact assessment,   *)
(* recency filter, per-ticker pipeline, a run of main) and of the runs of  *)
(* realtime_check.py (price alerts and news alerts).                       *)
(*                                                                         *)
(* Text is modelled at the level of characters: a Python str is a sequence *)
(* of one-character strings, so that splitting, stripping, tokenising,     *)
(* lower-casing and substring search are computed the way the code         *)
(* computes them.                                                          *)
(***************************************************************************)
EXTENDS Integers, Sequences, FiniteSets, TLC

(***************************************************************************)
(* Characters and the str methods the code uses                            *)
(***************************************************************************)
UpperCase == << "A","B","C","D","E","F","G","H","I","J","K","L","M","N","O","P","Q","R","S","T","U","V","W","X","Y","Z" >>

LowerCase == << "a","b","c","d","e","f","g","h","i","j","k","l","m","n","o","p","q","r","s","t","u","v","w","x","y","z" >>

Digits == { "0","1","2","3","4","5","6","7","8","9" }

Whitespace == {" ", "\n", "\r", "\t"}

\* the characters \w matches
WordChars ==
    {UpperCase[i] : i \in 1..26} \cup {LowerCase[i] : i \in 1..26} \cup Digits \cup {"_"}

\* [\.\?\!] of the sentence pattern
Terminators == {".", "?", "!"}

\* [A-Z0-9"'\(\[] of the sentence pattern (the opening curly quote is left
\* out: no input of the model holds one)
Starters ==
    {UpperCase[i] : i \in 1..26} \cup Digits \cup {"\"", "'", "(", "["}

Range(f) == {f[i] : i \in DOMAIN f}

SetMin(S) == CHOOSE x \in S : \A y \in S : x <= y

SetMax(S) == CHOOSE x \in S : \A y \in S : x >= y

\* each upper-case letter to its lower-case letter
LowerMap ==
    ("A" :> "a") @@
    ("B" :> "b") @@
    ("C" :> "c") @@
    ("D" :> "d") @@
    ("E" :> "e") @@
    ("F" :> "f") @@
    ("G" :> "g") @@
    ("H" :> "h") @@
    ("I" :> "i") @@
    ("J" :> "j") @@
    ("K" :> "k") @@
    ("L" :> "l") @@
    ("M" :> "m") @@
    ("N" :> "n") @@
    ("O" :> "o") @@
    ("P" :> "p") @@
    ("Q" :> "q") @@
    ("R" :> "r") @@
    ("S" :> "s") @@
    ("T" :> "t") @@
    ("U" :> "u") @@
    ("V" :> "v") @@
    ("W" :> "w") @@
    ("X" :> "x") @@
    ("Y" :> "y") @@
    ("Z" :> "z")

LowerChar(c) == IF c \in DOMAIN LowerMap THEN LowerMap[c] ELSE c

\* the sequence [i \in 1..n |-> ...] as a tuple, so that it is computed once
Tuple(f, n) == SubSeq(f, 1, n)

\* str.lower()
lower(s) == Tuple([i \in 1..Len(s) |-> LowerChar(s[i])], Len(s))

\* Python's  k in s  for two strings
Contains(k, s) ==
    \E i \in 0..(Len(s) - Len(k)) : \A j \in 1..Len(k) : s[i + j] = k[j]

\* str.strip()
strip(s) ==
    LET keep == {i \in 1..Len(s) : s[i] \notin Whitespace}
    IN  IF keep = {} THEN <<>> ELSE SubSeq(s, SetMin(keep), SetMax(keep))

\* text.replace("\r", " ").replace("\n", " ")
replace_newlines(s) ==
    Tuple([i \in 1..Len(s) |-> IF s[i] \in {"\r", "\n"} THEN " " ELSE s[i]], Len(s))

\* the last index of the run of characters of class that starts at i
run_end(t, i, class) ==
    SetMin({j \in i..Len(t) : j = Len(t) \/ t[j + 1] \notin class})

\* the last index of the whitespace run that starts at i
ws_run_end(t, i) == run_end(t, i, Whitespace)

\* the pattern (?<=[\.\?\!])\s+(?=[A-Z0-9"'\(\[]) matches at i: a whitespace run
\* that starts right after a terminator and is followed by a starter
split_match(t, i) ==
    /\ i > 1
    /\ t[i] \in Whitespace
    /\ t[i - 1] \in Terminators
    /\ ws_run_end(t, i) < Len(t)
    /\ t[ws_run_end(t, i) + 1] \in Starters

\* re.split(pattern, text): the pieces between the matches, scanning left to right
\* from start (a match cannot begin inside another one: it begins after a terminator)
RECURSIVE re_split(_, _)
re_split(t, start) ==
    LET matches == {i \in start..Len(t) : split_match(t, i)}
    IN  IF matches = {} THEN << SubSeq(t, start, Len(t)) >>
        ELSE << SubSeq(t, start, SetMin(matches) - 1) >>
             \o re_split(t, ws_run_end(t, SetMin(matches)) + 1)

\* str.split(sep): the pieces between the occurrences of sep, found left to right
\* from start, each search resuming after the occurrence before
RECURSIVE str_split(_, _, _)
str_split(t, sep, start) ==
    LET found == {i \in start..(Len(t) - Len(sep) + 1) :
                     SubSeq(t, i, i + Len(sep) - 1) = sep}
    IN  IF found = {} THEN << SubSeq(t, start, Len(t)) >>
        ELSE << SubSeq(t, start, SetMin(found) - 1) >>
             \o str_split(t, sep, SetMin(found) + Len(sep))

\* " ".join(parts)
RECURSIVE join(_, _)
join(sep, parts) ==
    IF parts = <<>> THEN <<>>
    ELSE IF Len(parts) = 1 THEN parts[1]
    ELSE parts[1] \o sep \o join(sep, Tail(parts))

\* Python's seq[:n], for n of either sign
slice_to(seq, n) ==
    IF n >= 0
    THEN SubSeq(seq, 1, IF n < Len(seq) THEN n ELSE Len(seq))
    ELSE SubSeq(seq, 1, Len(seq) + n)

\* Python's  x in seq  for a list
InList(x, seq) == \E i \in 1..Len(seq) : seq[i] = x

RECURSIVE SumSeq(_)
SumSeq(ns) == IF ns = <<>> THEN 0 ELSE Head(ns) + SumSeq(Tail(ns))

(***************************************************************************)
(* Configuration                                                           *)
(***************************************************************************)
IMPORTANT_KEYWORDS ==
    << <<"e","a","r","n","i","n","g","s">>,
       <<"r","e","v","e","n","u","e">>,
       <<"g","u","i","d","a","n","c","e">>,
       <<"c","o","n","t","r","a","c","t">>,
       <<"a","c","q","u","i","s","i","t","i","o","n">>,
       <<"a","c","q","u","i","r","e">>,
       <<"m","e","r","g","e","r">>,
       <<"l","a","u","n","c","h">>,
       <<"f","a","i","l","u","r","e">>,
       <<"d","e","l","a","y">>,
       <<"s","u","c","c","e","s","s">>,
       <<"l","o","s","s">>,
       <<"p","r","o","f","i","t">>,
       <<"b","a","c","k","l","o","g">>,
       <<"o","r","d","e","r">>,
       <<"f","u","n","d","i","n","g">>,
       <<"c","a","s","h">>,
       <<"g","r","a","n","t">>,
       <<"a","w","a","r","d">>,
       <<"a","g","r","e","e","m","e","n","t">>,
       <<"s","e","t","t","l","e","m","e","n","t">>,
       <<"i","n","v","e","s","t","i","g","a","t","i","o","n">>,
       <<"c","o","n","t","r","a","c","t","o","r">>,
       <<"n","a","s","a">>,
       <<"d","e","f","e","n","s","e">>,
       <<"s","e","c">> >>

pos_keys ==
    << <<"b","e","a","t">>,
       <<"b","e","a","t","s">>,
       <<"o","u","t","p","e","r","f","o","r","m">>,
       <<"r","a","i","s","e","d"," ","g","u","i","d","a","n","c","e">>,
       <<"i","n","c","r","e","a","s","e">>,
       <<"w","i","n">>,
       <<"a","w","a","r","d","e","d">>,
       <<"c","o","n","t","r","a","c","t">>,
       <<"a","w","a","r","d">>,
       <<"a","c","q","u","i","r","e","d">>,
       <<"a","c","q","u","i","s","i","t","i","o","n">>,
       <<"p","r","o","f","i","t">>,
       <<"g","r","o","w","t","h">>,
       <<"r","e","c","o","r","d">>,
       <<"o","r","d","e","r">> >>

neg_keys ==
    << <<"m","i","s","s">>,
       <<"m","i","s","s","e","d">>,
       <<"c","u","t"," ","g","u","i","d","a","n","c","e">>,
       <<"l","o","w","e","r"," ","g","u","i","d","a","n","c","e">>,
       <<"d","e","l","a","y">>,
       <<"f","a","i","l","u","r","e">>,
       <<"i","n","v","e","s","t","i","g","a","t","i","o","n">>,
       <<"l","o","s","s"," ","w","i","d","e","n","e","d">>,
       <<"l","o","s","s">>,
       <<"r","e","c","a","l","l">>,
       <<"b","a","n","k","r","u","p","t","c","y">>,
       <<"l","a","w","s","u","i","t">>,
       <<"s","u","s","p","e","n","d">> >>

MAX_SUMMARY_SENTENCES == 6

\* len(s.strip()) > 10 in split_sentences
MinSentenceChars == 10

(***************************************************************************)
(* Summarization (extractive)                                              *)
(***************************************************************************)
\* [s.strip() for s in sents if s and len(s.strip()) > 10]
RECURSIVE keep_sentences(_)
keep_sentences(sents) ==
    IF sents = <<>> THEN <<>>
    ELSE IF Head(sents) # <<>> /\ Len(strip(Head(sents))) > MinSentenceChars
         THEN << strip(Head(sents)) >> \o keep_sentences(Tail(sents))
         ELSE keep_sentences(Tail(sents))

split_sentences(text) ==
    IF text = <<>> THEN <<>>
    ELSE LET t == replace_newlines(text)
             sents == re_split(t, 1)
         IN  IF Len(sents) < 2
             THEN keep_sentences(str_split(t, <<".", " ">>, 1))
             ELSE keep_sentences(sents)

\* re.findall(r"\w+", s): the maximal runs of word characters, from start on
RECURSIVE findall_words(_, _)
findall_words(s, start) ==
    LET begins == {i \in start..Len(s) : s[i] \in WordChars}
    IN  IF begins = {} THEN <<>>
        ELSE << SubSeq(s, SetMin(begins), run_end(s, SetMin(begins), WordChars)) >>
             \o findall_words(s, run_end(s, SetMin(begins), WordChars) + 1)

RECURSIVE all_words(_)
all_words(sentences) ==
    IF sentences = <<>> THEN <<>>
    ELSE findall_words(lower(Head(sentences)), 1) \o all_words(Tail(sentences))

\* Counter(words): each word to the number of times it occurs
Counter(words) ==
    [w \in Range(words) |-> Cardinality({i \in 1..Len(words) : words[i] = w})]

compute_tf(sentences) == Counter(all_words(sentences))

\* tf.get(w, 0)
tf_get(tf, w) == IF w \in DOMAIN tf THEN tf[w] ELSE 0

\* sum(tf.get(w, 0) for w in words)
RECURSIVE sum_tf(_, _)
sum_tf(tf, words) ==
    IF words = <<>> THEN 0 ELSE tf_get(tf, Head(words)) + sum_tf(tf, Tail(words))

\* sum(2 for kw in important_terms if kw in s.lower())
kw_bonus(s, important_terms) ==
    LET ls == lower(s)
    IN  2 * Cardinality({k \in 1..Len(important_terms) : Contains(important_terms[k], ls)})

\* a variant: no factor for the long sentences
length_factor10_short_only(length) == IF length < 6 THEN 7 ELSE 10

\* length_factor, in tenths: 0.7 below 6 words, 0.9 above 80, else 1.0
length_factor10(length) ==
    IF length < 6 THEN 7 ELSE IF length > 80 THEN 9 ELSE 10

\* score_sentence in tenths (the products of the texts of this module are below
\* the sizes at which the rounding of the code's floats would tell apart, or
\* confuse, two scores):
\* 10 * (base * (1 + kw_bonus) * length_factor + pos_bonus), and 0.0 for no word
score_sentence(s, tf, important_terms) ==
    LET words == findall_words(lower(s), 1)
        base == sum_tf(tf, words)
    IN  IF words = <<>> THEN 0
        ELSE base * (1 + kw_bonus(s, important_terms)) * length_factor10(Len(words)) + 10

\* scored = [(s, score_sentence(s, tf, important_terms)) for s in sents]
RECURSIVE score_each(_, _, _)
score_each(rest, tf, important_terms) ==
    IF rest = <<>> THEN <<>>
    ELSE << << Head(rest), score_sentence(Head(rest), tf, important_terms) >> >>
         \o score_each(Tail(rest), tf, important_terms)

scored_sentences(sents, important_terms) ==
    score_each(sents, compute_tf(sents), important_terms)

\* a variant: reverse=True forgotten, the lowest score first
sorted_ascending(scored) ==
    LET n == Len(scored)
        before(i) == {j \in 1..n : \/ scored[j][2] < scored[i][2]
                                   \/ scored[j][2] = scored[i][2] /\ j < i}
        at(r) == CHOOSE i \in 1..n : Cardinality(before(i)) = r - 1
    IN  Tuple([r \in 1..n |-> scored[at(r)]], n)

\* sorted(scored, key=lambda x: x[1], reverse=True): Python's sort is stable, and
\* with reverse=True equal keys still keep their original order
sorted_by_score(scored) ==
    LET n == Len(scored)
        before(i) == {j \in 1..n : \/ scored[j][2] > scored[i][2]
                                   \/ scored[j][2] = scored[i][2] /\ j < i}
        at(r) == CHOOSE i \in 1..n : Cardinality(before(i)) = r - 1
    IN  Tuple([r \in 1..n |-> scored[at(r)]], n)

\* a variant: the candidate set is the top max_sentences, not three times as many
top_sentences_no_factor(scored, max_sentences) ==
    LET topk == slice_to(sorted_by_score(scored), max_sentences)
    IN  Tuple([i \in 1..Len(topk) |-> topk[i][1]], Len(topk))

\* topk = sorted(...)[:max_sentences*3]; top_sentences = [s for s,sc in topk]
top_sentences(scored, max_sentences) ==
    LET topk == slice_to(sorted_by_score(scored), max_sentences * 3)
    IN  Tuple([i \in 1..Len(topk) |-> topk[i][1]], Len(topk))

\* a variant: the loop is left one sentence too late (> for >=)
RECURSIVE walk_late_break(_, _, _, _, _)
walk_late_break(sents, top, max_sentences, i, summary) ==
    IF i > Len(sents) THEN summary
    ELSE LET s == sents[i]
             kept == IF InList(s, top) /\ ~InList(s, summary)
                     THEN Append(summary, s) ELSE summary
         IN  IF Len(kept) > max_sentences THEN kept
             ELSE walk_late_break(sents, top, max_sentences, i + 1, kept)

\* a variant: the test  s not in summary  is missing
RECURSIVE walk_keep_duplicates(_, _, _, _, _)
walk_keep_duplicates(sents, top, max_sentences, i, summary) ==
    IF i > Len(sents) THEN summary
    ELSE LET s == sents[i]
             kept == IF InList(s, top) THEN Append(summary, s) ELSE summary
         IN  IF Len(kept) >= max_sentences THEN kept
             ELSE walk_keep_duplicates(sents, top, max_sentences, i + 1, kept)

\* the loop  for s in sents  from its i-th iteration on, summary being the list so far
RECURSIVE walk(_, _, _, _, _)
walk(sents, top, max_sentences, i, summary) ==
    IF i > Len(sents) THEN summary
    ELSE LET s == sents[i]
             kept == IF InList(s, top) /\ ~InList(s, summary)
                     THEN Append(summary, s) ELSE summary
         IN  IF Len(kept) >= max_sentences THEN kept
             ELSE walk(sents, top, max_sentences, i + 1, kept)

\* a variant: the loop walks the ranked candidates, not the document
walked_in_rank_order(sents, important_terms, max_sentences) ==
    LET top == top_sentences(scored_sentences(sents, important_terms), max_sentences)
    IN  walk(top, top, max_sentences, 1, <<>>)

\* the list  summary  of extractive_summary when the loop has ended
walked_summary(sents, important_terms, max_sentences) ==
    walk(sents, top_sentences(scored_sentences(sents, important_terms), max_sentences),
         max_sentences, 1, <<>>)

\* the list  summary  of extractive_summary before it is joined
summary_sentences(sents, important_terms, max_sentences) ==
    LET summary == walked_summary(sents, important_terms, max_sentences)
    IN  IF summary = <<>> THEN slice_to(sents, max_sentences) ELSE summary

extractive_summary(text, important_terms, max_sentences) ==
    IF text = <<>> THEN <<>>
    ELSE LET sents == split_sentences(text)
         IN  IF sents = <<>> THEN <<>>
             ELSE join(<<" ">>, summary_sentences(sents, important_terms, max_sentences))

(***************************************************************************)
(* Impact assessment, rule-based.  The three labels of the code are Thai   *)
(* words: "up" stands for the rising one, "down" for the falling one and   *)
(* "neutral" for the neutral one.                                          *)
(***************************************************************************)
\* sum(1 for k in keys if k in text)
RECURSIVE count_keys(_, _)
count_keys(keys, text) ==
    IF keys = <<>> THEN 0
    ELSE (IF Contains(Head(keys), text) THEN 1 ELSE 0) + count_keys(Tail(keys), text)

\* a variant: a tie with a keyword on each side counts as rising (>= for >)
impact_label_ties_up(pos_count, neg_count) ==
    IF pos_count >= neg_count /\ pos_count >= 1 THEN "up"
    ELSE IF neg_count > pos_count /\ neg_count >= 1 THEN "down"
    ELSE "neutral"

impact_label(pos_count, neg_count) ==
    IF pos_count > neg_count /\ pos_count >= 1 THEN "up"
    ELSE IF neg_count > pos_count /\ neg_count >= 1 THEN "down"
    ELSE "neutral"

\* any(k in ls for k in pos_keys + neg_keys)
all_keys == pos_keys \o neg_keys

\* a variant: only the positive keywords are looked for
has_pos_key(s) ==
    LET ls == lower(s)
    IN  \E k \in 1..Len(pos_keys) : Contains(pos_keys[k], ls)

has_key(s) ==
    LET ls == lower(s)
    IN  \E k \in 1..Len(all_keys) : Contains(all_keys[k], ls)

\* the loop that appends s.strip() for every sentence holding a keyword
RECURSIVE key_sentences(_)
key_sentences(sents) ==
    IF sents = <<>> THEN <<>>
    ELSE IF has_key(Head(sents))
         THEN << strip(Head(sents)) >> \o key_sentences(Tail(sents))
         ELSE key_sentences(Tail(sents))

impact_reasons(summary_en) ==
    LET sents == split_sentences(summary_en)
        reason_list == key_sentences(sents)
    IN  IF reason_list = <<>> /\ sents # <<>> THEN << strip(sents[1]) >>
        ELSE reason_list

\* assess_impact returns (impact, reason_list)
assess_impact(summary_en) ==
    LET text == lower(summary_en)
    IN  [impact |-> impact_label(count_keys(pos_keys, text), count_keys(neg_keys, text)),
         reasons |-> impact_reasons(summary_en)]

(***************************************************************************)
(* Publication times: is_within_last_24h                                   *)
(*                                                                         *)
(* A datetime is the record of what datetime.fromisoformat yields: the     *)
(* day (its ordinal), the second of the day, the microsecond, and, when tz *)
(* is TRUE, the UTC offset in minutes.  A pub_iso value is one of          *)
(*   "none"          None: no raw value was found                          *)
(*   "empty"         the empty string                                      *)
(*   "iso"           a string fromisoformat parses, to dt                  *)
(*   "raw_date"      a string fromisoformat rejects, holding a             *)
(*                   YYYY-MM-DD date, the day dt.day                       *)
(*   "raw_bad_date"  the same, the digits being no date of the calendar    *)
(*   "raw"           a string fromisoformat rejects, with no such digits   *)
(***************************************************************************)
SecondsPerDay == 86400

MicrosPerSecond == 1000000

datetime(day, sec, us, tz, off) ==
    [day |-> day, sec |-> sec, us |-> us, tz |-> tz, off |-> off]

NoDatetime == datetime(0, 0, 0, FALSE, 0)

Pub(kind, dt) == [kind |-> kind, dt |-> dt]

NoPub == Pub("none", NoDatetime)

\* timedelta(days, seconds, microseconds), normalised as the constructor does
timedelta(days, seconds, microseconds) ==
    LET s  == seconds + (microseconds \div MicrosPerSecond)
        us == microseconds % MicrosPerSecond
    IN  [days |-> days + (s \div SecondsPerDay),
         seconds |-> s % SecondsPerDay,
         microseconds |-> us]

\* dt.astimezone(datetime.timezone.utc).replace(tzinfo=None)
astimezone_utc(dt) ==
    LET d == timedelta(dt.day, dt.sec - dt.off * 60, dt.us)
    IN  datetime(d.days, d.seconds, d.microseconds, FALSE, 0)

\* dt after lines 237 to 240: naive, in UTC
naive_utc(dt) == IF dt.tz THEN astimezone_utc(dt) ELSE dt

\* now - dt, both naive
datetime_sub(a, b) == timedelta(a.day - b.day, a.sec - b.sec, a.us - b.us)

\* delta.total_seconds(): the whole seconds, and the microseconds beyond them
total_seconds(delta) ==
    [whole |-> delta.days * SecondsPerDay + delta.seconds,
     micros |-> delta.microseconds]

\* 0 <= ts < 86400, the upper end left out
in_window_exclusive(ts) == ts.whole >= 0 /\ ts.whole < SecondsPerDay

\* 0 <= ts <= 86400
in_window(ts) ==
    /\ ts.whole >= 0
    /\ \/ ts.whole < SecondsPerDay
       \/ ts.whole = SecondsPerDay /\ ts.micros = 0

within_24h_of(now_utc, dt) == in_window(total_seconds(datetime_sub(now_utc, dt)))

\* is_within_last_24h(pub_iso), datetime.utcnow() answering now_utc
is_within_last_24h(pub_iso, now_utc) ==
    CASE pub_iso.kind \in {"none", "empty"} -> FALSE
      [] pub_iso.kind = "iso" -> within_24h_of(now_utc, naive_utc(pub_iso.dt))
      [] pub_iso.kind = "raw_date" ->
            within_24h_of(now_utc, datetime(pub_iso.dt.day, 0, 0, FALSE, 0))
      [] OTHER -> FALSE

(***************************************************************************)
(* The per-ticker pipeline: fetch_yahoo_candidates, process_ticker,        *)
(* format_ticker_section                                                   *)
(*                                                                         *)
(* A candidate is [title, url].  A search response is [ok, news]: ok is    *)
(* FALSE when the request or the decoding of its answer fails.  A page is  *)
(* what fetch_article_text_and_published returns for a URL: [text, pub].   *)
(***************************************************************************)
TICKERS == {"IONQ", "FLY", "LUNR"}

PrimaryLimit == 12

AliasLimit == 6

MinCandidates == 6

MaxArticles == 3

FallbackSentences == 3

MaxReasonsShown == 3

\* the list aliases of process_ticker, the ticker first
aliases(ticker) ==
    << ticker >> \o
    (IF ticker = "FLY"
     THEN << "Firefly Aerospace", "Firefly SciTec", "SciTec", "Sci Tec" >>
     ELSE << >>) \o
    (IF ticker = "LUNR" THEN << "Intuitive Machines" >> ELSE << >>) \o
    (IF ticker = "IONQ" THEN << "IonQ", "IonQ Inc" >> ELSE << >>)

\* news[:limit] of fetch_yahoo_candidates: the items the search answered
news_within(response, limit) ==
    IF response.ok THEN slice_to(response.news, limit) ELSE <<>>

\* the loop "dedupe by url" of fetch_yahoo_candidates: out from index i on,
\* res and seen being what the loop has built so far
RECURSIVE dedupe_by_url(_, _, _, _)
dedupe_by_url(out, i, seen, res) ==
    IF i > Len(out) THEN res
    ELSE LET u == out[i].url
         IN  IF u # <<>> /\ u \notin seen
             THEN dedupe_by_url(out, i + 1, seen \cup {u}, Append(res, out[i]))
             ELSE dedupe_by_url(out, i + 1, seen, res)

\* fetch_yahoo_candidates(query, limit), the search answering response
fetch_yahoo_candidates(response, limit) ==
    dedupe_by_url(news_within(response, limit), 1, {}, <<>>)

\* the loop  for m in more  without the test of line 383
append_all(candidates, more, i) == candidates \o SubSeq(more, i, Len(more))

\* the loop  for m in more  of process_ticker, from index i on
RECURSIVE append_new(_, _, _)
append_new(candidates, more, i) ==
    IF i > Len(more) THEN candidates
    ELSE IF \A j \in 1..Len(candidates) : more[i].url # candidates[j].url
         THEN append_new(Append(candidates, more[i]), more, i + 1)
         ELSE append_new(candidates, more, i + 1)

\* \b matches in s between the characters p and p + 1
word_boundary(s, p) ==
    (p >= 1 /\ p <= Len(s) /\ s[p] \in WordChars)
        # (p + 1 >= 1 /\ p + 1 <= Len(s) /\ s[p + 1] \in WordChars)

\* re.search(r'\b(k1|k2|...)\b', s, flags=re.I) finds a match
re_search_words(keys, s) ==
    LET t == lower(s)
    IN  \E k \in keys :
          \E i \in 1..(Len(t) - Len(k) + 1) :
             /\ SubSeq(t, i, i + Len(k) - 1) = k
             /\ word_boundary(t, i - 1)
             /\ word_boundary(t, i + Len(k) - 1)

\* today|yesterday|hours ago|minutes ago|ago
recency_phrases ==
    { <<"t","o","d","a","y">>,
      <<"y","e","s","t","e","r","d","a","y">>,
      <<"h","o","u","r","s"," ","a","g","o">>,
      <<"m","i","n","u","t","e","s"," ","a","g","o">>,
      <<"a","g","o">> }

\* 202[0-9]|nov|oct|sep|aug|jul|jun|may|apr|mar|feb|jan
date_tokens ==
    { <<"2","0","2","0">>,
      <<"2","0","2","1">>,
      <<"2","0","2","2">>,
      <<"2","0","2","3">>,
      <<"2","0","2","4">>,
      <<"2","0","2","5">>,
      <<"2","0","2","6">>,
      <<"2","0","2","7">>,
      <<"2","0","2","8">>,
      <<"2","0","2","9">>,
      <<"n","o","v">>,
      <<"o","c","t">>,
      <<"s","e","p">>,
      <<"a","u","g">>,
      <<"j","u","l">>,
      <<"j","u","n">>,
      <<"m","a","y">>,
      <<"a","p","r">>,
      <<"m","a","r">>,
      <<"f","e","b">>,
      <<"j","a","n">> }

\* the else branch of lines 400 to 407: the two searches
heuristic_include(c) ==
    \/ re_search_words(recency_phrases, c.title)
    \/ re_search_words(date_tokens, c.url \o c.title)

\* Python's truth value of pub_iso
truthy(pub_iso) == pub_iso.kind \notin {"none", "empty"}

\* the value of include at line 408
include(c, pub_iso, now_utc) ==
    IF truthy(pub_iso) THEN is_within_last_24h(pub_iso, now_utc)
    ELSE heuristic_include(c)

\* the dict appended to articles at line 409
article(c, page) ==
    [title |-> c.title, url |-> c.url, text |-> page.text, pub |-> page.pub]

\* summary_en of lines 419 to 423
summary_of(a) ==
    LET s == extractive_summary(a.text, IMPORTANT_KEYWORDS, MAX_SUMMARY_SENTENCES)
    IN  IF s # <<>> THEN s
        ELSE LET sents == split_sentences(a.text)
             IN  IF sents # <<>>
                 THEN join(<<" ">>, slice_to(sents, FallbackSentences))
                 ELSE a.title

\* the dict appended to out_entries at lines 427 to 435
entry_of(a) ==
    LET s == summary_of(a)
        r == assess_impact(s)
    IN  [title |-> a.title, url |-> a.url, pub |-> a.pub, summary_en |-> s,
         impact |-> r.impact, impact_reasons_en |-> r.reasons]

(***************************************************************************)
(* format_ticker_section: the section is the sequence of its lines, each   *)
(* [kind, text].  The wording of a line is fixed by its kind; text is what *)
(* the line is made from (for the lines that go through translate_to_th,   *)
(* the English text handed to it).                                         *)
(***************************************************************************)
Line(kind, text) == [kind |-> kind, text |-> text]

\* the two lines of header: the ticker and the date, the price (or n/a)
header(ticker, price_now) == << Line("header", << ticker, price_now >>) >>

no_news_line == Line("no_news", <<>>)

RECURSIVE reason_lines(_)
reason_lines(rs) ==
    IF rs = <<>> THEN <<>>
    ELSE << Line("reason", Head(rs)) >> \o reason_lines(Tail(rs))

\* sec of lines 479 to 517 for one entry
section_of(e) ==
    (IF e.title # <<>> THEN << Line("title", e.title) >> ELSE <<>>)
    \o (IF strip(e.summary_en) # <<>> THEN << Line("summary", e.summary_en) >> ELSE <<>>)
    \o << Line("impact", << e.impact >>) >>
    \o reason_lines(slice_to(e.impact_reasons_en, MaxReasonsShown))
    \o (IF e.url # <<>> THEN << Line("url", e.url) >> ELSE <<>>)

RECURSIVE sections_of(_)
sections_of(entries) ==
    IF entries = <<>> THEN <<>>
    ELSE section_of(Head(entries)) \o sections_of(Tail(entries))

votes(entries, label) == Cardinality({i \in 1..Len(entries) : entries[i].impact = label})

\* rec of lines 526 to 531
recommendation(entries) ==
    IF votes(entries, "up") > votes(entries, "down") THEN "positive"
    ELSE IF votes(entries, "down") > votes(entries, "up") THEN "negative"
    ELSE "mixed"

\* the section without the test of line 450
format_section_always(ticker, price_now, entries) ==
    header(ticker, price_now) \o sections_of(entries)
        \o << Line("recommendation", << recommendation(entries) >>) >>

\* what format_ticker_section returns once process_ticker has returned entries
format_section(ticker, price_now, entries) ==
    IF entries = <<>> THEN header(ticker, price_now) \o << no_news_line >>
    ELSE header(ticker, price_now) \o sections_of(entries)
            \o << Line("recommendation", << recommendation(entries) >>) >>

(***************************************************************************)
(* State                                                                   *)
(***************************************************************************)
VARIABLES
    pc,               \* the position of the run
    text,             \* extractive_summary: the article text
    max_sentences,    \* extractive_summary: the count passed
    sents,            \* extractive_summary: split_sentences(text)
    summary,          \* extractive_summary: the list summary before the join
    summary_en,       \* the paragraph extractive_summary returns, assess_impact's input
    impact,           \* assess_impact: the label returned
    reasons,          \* assess_impact: the reason_list returned
    now,              \* what datetime.utcnow() answers
    pub_iso,          \* is_within_last_24h: its argument
    within,           \* is_within_last_24h: the value returned
    ticker,           \* format_ticker_section: the ticker
    price_now,        \* format_ticker_section: the price, "None" when the lookup failed
    candidates,       \* process_ticker: the list candidates
    queried,          \* the queries sent to fetch_yahoo_candidates so far, in order
    answered,         \* the news items the searches answered so far, within the limits, in order
    count_after,      \* len(candidates) after each of the queries sent so far
    idx,              \* process_ticker: the index of the loop the run is in
    articles,         \* process_ticker: the list articles
    out_entries,      \* process_ticker: the list out_entries
    section,          \* format_ticker_section: the lines returned, once returned
    world,            \* daily_report.main: what the external collaborators do in this run
    exit_status,      \* daily_report.main: "returned", or the exception that ended the run
    report,           \* daily_report.main: the value build_full_report returned, if any
    delivery,         \* daily_report.main: what became of the call of send_to_telegram
    environment,      \* realtime_check: the prices and the news the services may answer
    status_file,      \* realtime_check: alerts_status.json
    status,           \* realtime_check.main: the dict status
    updated,          \* realtime_check.main: the flag updated
    runs,             \* the number of runs of realtime_check.main started so far
    tick,             \* realtime_check.main: the index in TICKERS of the loop the run is in
    pending,          \* realtime_check.main: the articles of the ticker not yet looked at
    seen,             \* realtime_check.main: the set seen
    observed,         \* what get_price answered for each ticker in this run
    sends,            \* the calls of send_telegram of this run, in order
    since_alert,      \* for each ticker, what has happened since its last price alert
    news_alerted,     \* the article ids a news alert was sent for, in any run
    encountered       \* the article ids the loop over articles met in this run

articleVars ==
    << text, max_sentences, sents, summary, summary_en, impact, reasons >>

recencyVars == << now, pub_iso, within >>

tickerVars ==
    << ticker, price_now, candidates, queried, answered, count_after, idx, articles,
       out_entries, section >>

reportVars == << world, exit_status, report, delivery >>

alertVars ==
    << environment, status_file, status, updated, runs, tick, pending, seen, observed, sends,
       since_alert, news_alerted, encountered >>

otherVars == << reportVars, alertVars >>

vars == << pc, articleVars, recencyVars, tickerVars, otherVars >>

\* the variables of a part of the program the run does not enter
IdleArticle ==
    /\ text = <<>>
    /\ max_sentences = 0
    /\ sents = <<>>
    /\ summary = <<>>
    /\ summary_en = <<>>
    /\ impact = "none"
    /\ reasons = <<>>

IdleRecency ==
    /\ now = NoDatetime
    /\ pub_iso = NoPub
    /\ within = FALSE

IdleTicker ==
    /\ ticker = "none"
    /\ price_now = "None"
    /\ candidates = <<>>
    /\ queried = <<>>
    /\ answered = <<>>
    /\ count_after = <<>>
    /\ idx = 0
    /\ articles = <<>>
    /\ out_entries = <<>>
    /\ section = [returned |-> FALSE, lines |-> <<>>]

IdleReport ==
    /\ world = "none"
    /\ exit_status = "none"
    /\ report = [returned |-> FALSE, parts |-> <<>>]
    /\ delivery = "none"

IdleAlerts ==
    /\ environment = "none"
    /\ status_file = "none"
    /\ status = "none"
    /\ updated = FALSE
    /\ runs = 0
    /\ tick = 0
    /\ pending = <<>>
    /\ seen = {}
    /\ observed = <<>>
    /\ sends = <<>>
    /\ since_alert = <<>>
    /\ news_alerted = {}
    /\ encountered = {}

IdleOther == IdleReport /\ IdleAlerts

(***************************************************************************)
(* Inputs: sentences, and texts made of sentences joined by one space      *)
(***************************************************************************)
\* 'Loss after loss hit.'
S_loss ==
    <<"L","o","s","s"," ","a","f","t","e","r"," ","l","o","s","s"," ","h","i","t",".">>

\* 'Profit was flat.'
S_profit ==
    <<"P","r","o","f","i","t"," ","w","a","s"," ","f","l","a","t",".">>

\* 'Big win today here.'
S_win ==
    <<"B","i","g"," ","w","i","n"," ","t","o","d","a","y"," ","h","e","r","e",".">>

\* 'They plan a delay.'
S_delay ==
    <<"T","h","e","y"," ","p","l","a","n"," ","a"," ","d","e","l","a","y",".">>

\* 'Nothing new here now.'
S_plain ==
    <<"N","o","t","h","i","n","g"," ","n","e","w"," ","h","e","r","e"," ","n","o","w",".">>

\* 'Too short.'
S_short ==
    <<"T","o","o"," ","s","h","o","r","t",".">>

\* 'Earnings and revenue beat the guidance.'
H_earnings ==
    <<"E","a","r","n","i","n","g","s"," ","a","n","d"," ","r","e","v","e","n","u","e"," ","b","e","a","t"," ","t","h","e"," ","g","u","i","d","a","n","c","e",".">>

\* 'Profit and cash from the contract grew.'
H_profit ==
    <<"P","r","o","f","i","t"," ","a","n","d"," ","c","a","s","h"," ","f","r","o","m"," ","t","h","e"," ","c","o","n","t","r","a","c","t"," ","g","r","e","w",".">>

\* 'The launch went well for the team.'
H_launch ==
    <<"T","h","e"," ","l","a","u","n","c","h"," ","w","e","n","t"," ","w","e","l","l"," ","f","o","r"," ","t","h","e"," ","t","e","a","m",".">>

\* 'Item '
F_head ==
    <<"I","t","e","m"," ">>

\* ' is here.'
F_short ==
    <<" ","i","s"," ","h","e","r","e",".">>

\* ' is here for the day.'
F_long ==
    <<" ","i","s"," ","h","e","r","e"," ","f","o","r"," ","t","h","e"," ","d","a","y",".">>

\* the number of sentences of an article text is at most MaxSents
MaxSents == 4

\* max_sentences ranges over -NegCounts .. MaxCount
MaxCount == 4

NegCounts == 1

\* the number of sentences of a summary text handed to assess_impact directly:
\* of any sentences, and of sentences that each hold a keyword
MaxSummarySents == 3

MaxKeySents == 4

ArticleSentences == << S_loss, S_profit, S_win >>

SummarySentences == << S_loss, S_profit, S_win, S_delay, S_plain, S_short >>

KeySentences == << S_loss, S_profit, S_win, S_delay >>

TextsOf(pool, n) ==
    UNION {{join(<<" ">>, Tuple([i \in 1..k |-> pool[ix[i]]], k)) : ix \in [1..k -> 1..Len(pool)]} :
           k \in 0..n}

ArticleTexts == TextsOf(ArticleSentences, MaxSents)

\* the number of words above which score_sentence has a sentence for long
LongLength == 80

\* the word 'so' n times, and a full stop
RECURSIVE SoSentence(_)
SoSentence(n) ==
    IF n = 1 THEN <<"s", "o", ".">> ELSE <<"s", "o", " ">> \o SoSentence(n - 1)

\* '(...---...---...)!': a sentence with no word in it
S_nowords ==
    <<"(",".",".",".","-","-","-",".",".",".","-","-","-",".",".",".",")","!">>

\* texts for the factors of score_sentence: a sentence of exactly LongLength
\* words, one of a word more, one of no word, one of six words
ScoreTexts ==
    { join(<<" ">>, << SoSentence(LongLength), S_loss >>),
      join(<<" ">>, << SoSentence(LongLength + 1), S_nowords, S_loss >>),
      join(<<" ">>, << S_loss, S_nowords, S_profit >>),
      join(<<" ">>, << SoSentence(6), S_loss, S_win >>) }

SummaryTexts ==
    TextsOf(SummarySentences, MaxSummarySents) \cup TextsOf(KeySentences, MaxKeySents)

\* Scenario 4 of the specification: ten distinct sentences, the 2nd, 5th and 9th
\* holding keywords (the 9th the fewest), each of the other seven in a short or
\* in a long form
Scenario4Fillers == {1, 3, 4, 6, 7, 8, 10}

Scenario4Number(p) ==
    IF p = 10 THEN <<"1", "0">>
    ELSE << CHOOSE d \in Digits : d = ToString(p) >>

Scenario4Sentence(p, long) ==
    IF p = 2 THEN H_earnings
    ELSE IF p = 5 THEN H_profit
    ELSE IF p = 9 THEN H_launch
    ELSE F_head \o Scenario4Number(p) \o (IF long[p] THEN F_long ELSE F_short)

Scenario4Texts ==
    {join(<<" ">>, Tuple([p \in 1..10 |-> Scenario4Sentence(p, long)], 10)) :
        long \in [Scenario4Fillers -> BOOLEAN]}

(***************************************************************************)
(* The summarisation run: extractive_summary, then assess_impact on the    *)
(* paragraph it returned                                                   *)
(***************************************************************************)
InitArticle(texts, counts) ==
    /\ pc = "start"
    /\ text \in texts
    /\ max_sentences \in counts
    /\ sents = <<>>
    /\ summary = <<>>
    /\ summary_en = <<>>
    /\ impact = "none"
    /\ reasons = <<>>
    /\ IdleRecency
    /\ IdleTicker
    /\ IdleOther

InitSummary == InitArticle(ArticleTexts \cup ScoreTexts, (0 - NegCounts)..MaxCount)

InitScenario4 == InitArticle(Scenario4Texts, {3})

\* assess_impact called on a summary text of its own
InitImpact ==
    /\ pc = "summarized"
    /\ text = <<>>
    /\ max_sentences = 0
    /\ sents = <<>>
    /\ summary = <<>>
    /\ summary_en \in SummaryTexts
    /\ impact = "none"
    /\ reasons = <<>>
    /\ IdleRecency
    /\ IdleTicker
    /\ IdleOther

ExtractiveSummary ==
    /\ pc = "start"
    /\ pc' = "summarized"
    /\ sents' = split_sentences(text)
    /\ summary' = IF sents' = <<>> THEN <<>>
                  ELSE summary_sentences(sents', IMPORTANT_KEYWORDS, max_sentences)
    /\ summary_en' = join(<<" ">>, summary')
    /\ UNCHANGED << text, max_sentences, impact, reasons, recencyVars, tickerVars, otherVars >>

AssessImpact ==
    /\ pc = "summarized"
    /\ pc' = "assessed"
    /\ LET r == assess_impact(summary_en)
       IN  impact' = r.impact /\ reasons' = r.reasons
    /\ UNCHANGED << text, max_sentences, sents, summary, summary_en, recencyVars, tickerVars,
                    otherVars >>

NextSummary == ExtractiveSummary \/ AssessImpact

SpecSummary == InitSummary /\ [][NextSummary]_vars

SpecScenario4 == InitScenario4 /\ [][NextSummary]_vars

SpecImpact == InitImpact /\ [][AssessImpact]_vars

(***************************************************************************)
(* is_within_last_24h called on a publication time of its own              *)
(***************************************************************************)
\* the ordinal of the day of datetime.utcnow()
Today == 100

\* the days the publication times span: before today, and after it
DaysBack == 2

DaysAhead == 1

Days == (Today - DaysBack)..(Today + DaysAhead)

\* the seconds of the day and the microseconds the times are made of
SecondsOfDay == {0, 1, 43200, 86399}

Micros == {0, 1, 999999}

\* the instants, as naive UTC datetimes
Instants ==
    {datetime(d, s, u, FALSE, 0) : d \in Days, s \in SecondsOfDay, u \in Micros}

\* the ways an instant is written: with no offset, or at a UTC offset in minutes
TimeForms ==
    {[tz |-> FALSE, off |-> 0]} \cup {[tz |-> TRUE, off |-> o] : o \in {0 - 300, 0, 330}}

\* the datetime that reads instant t on a clock at the offset of form
iso_of(t, form) ==
    IF form.tz
    THEN LET d == timedelta(t.day, t.sec + form.off * 60, t.us)
         IN  datetime(d.days, d.seconds, d.microseconds, TRUE, form.off)
    ELSE t

PubValues ==
    {Pub("iso", iso_of(t, form)) : t \in Instants, form \in TimeForms}
    \cup {Pub("raw_date", datetime(d, 0, 0, FALSE, 0)) : d \in Days}
    \cup {Pub(k, NoDatetime) : k \in {"none", "empty", "raw", "raw_bad_date"}}

InitRecency ==
    /\ pc = "start"
    /\ now \in {t \in Instants : t.day = Today}
    /\ pub_iso \in PubValues
    /\ within = FALSE
    /\ IdleArticle
    /\ IdleTicker
    /\ IdleOther

IsWithinLast24h ==
    /\ pc = "start"
    /\ pc' = "checked"
    /\ within' = is_within_last_24h(pub_iso, now)
    /\ UNCHANGED << now, pub_iso, articleVars, tickerVars, otherVars >>

SpecRecency == InitRecency /\ [][IsWithinLast24h]_vars

(***************************************************************************)
(* format_ticker_section for one ticker: the candidates the search can     *)
(* answer, and the page behind each URL                                    *)
(***************************************************************************)
Candidate(title, url) == [title |-> title, url |-> url]

\* 'Firm wins today' at 'x.co/a': a recency phrase in the title
K_today ==
    Candidate(<<"F","i","r","m"," ","w","i","n","s"," ","t","o","d","a","y">>,
              <<"x",".","c","o","/","a">>)

\* 'Plain note' at 'x.co/2025/b': a year in the URL
K_year ==
    Candidate(<<"P","l","a","i","n"," ","n","o","t","e">>,
              <<"x",".","c","o","/","2","0","2","5","/","b">>)

\* 'Plain note' at 'x.co/c': nothing the heuristic looks for
K_plain ==
    Candidate(<<"P","l","a","i","n"," ","n","o","t","e">>,
              <<"x",".","c","o","/","c">>)

\* 'Nov sales rise' at 'x.co/d': a month at the start of the title, the URL ending in a letter
K_month ==
    Candidate(<<"N","o","v"," ","s","a","l","e","s"," ","r","i","s","e">>,
              <<"x",".","c","o","/","d">>)

\* 'Deal closed today' at 'x.co/e': a recency phrase in the title; the page's time is an opaque string
K_opaque ==
    Candidate(<<"D","e","a","l"," ","c","l","o","s","e","d"," ","t","o","d","a","y">>,
              <<"x",".","c","o","/","e">>)

\* 'Plain note' at 'x.co/f': the page's time is within the day
K_fresh ==
    Candidate(<<"P","l","a","i","n"," ","n","o","t","e">>,
              <<"x",".","c","o","/","f">>)

\* 'Firm wins today' at 'x.co/g': the page's time is two days old
K_stale ==
    Candidate(<<"F","i","r","m"," ","w","i","n","s"," ","t","o","d","a","y">>,
              <<"x",".","c","o","/","g">>)

\* 'Plain note' at 'x.co/h': the page's text splits into no sentence
K_nosent ==
    Candidate(<<"P","l","a","i","n"," ","n","o","t","e">>,
              <<"x",".","c","o","/","h">>)

\* 'Firm wins today' at 'x.co/i': the page has no text
K_nobody ==
    Candidate(<<"F","i","r","m"," ","w","i","n","s"," ","t","o","d","a","y">>,
              <<"x",".","c","o","/","i">>)

\* 'Plain note' at 'x.co/j': the page's time is a string of which only today's date is read
K_rawdate ==
    Candidate(<<"P","l","a","i","n"," ","n","o","t","e">>,
              <<"x",".","c","o","/","j">>)

\* 'Plain note' at 'x.co/k': the page's time is the empty string
K_blank ==
    Candidate(<<"P","l","a","i","n"," ","n","o","t","e">>,
              <<"x",".","c","o","/","k">>)

\* 'Firm wins today' at '': no URL
K_nourl ==
    Candidate(<<"F","i","r","m"," ","w","i","n","s"," ","t","o","d","a","y">>,
              <<>>)

\* datetime.utcnow() during the run: noon
TickerNow == datetime(Today, 43200, 0, FALSE, 0)

Page(body, pub) == [text |-> body, pub |-> pub]

T_two == join(<<" ">>, << S_loss, S_profit >>)

T_win == join(<<" ">>, << S_win, S_plain >>)

FreshPub == Pub("iso", datetime(Today, 3600, 0, TRUE, 0))

StalePub == Pub("iso", datetime(Today - 2, 3600, 0, FALSE, 0))

\* what fetch_article_text_and_published returns for each URL of the web
WebPages ==
    (K_today.url :> Page(T_win, NoPub)) @@
    (K_year.url :> Page(T_two, NoPub)) @@
    (K_plain.url :> Page(T_two, NoPub)) @@
    (K_month.url :> Page(T_two, NoPub)) @@
    (K_opaque.url :> Page(T_win, Pub("raw", NoDatetime))) @@
    (K_fresh.url :> Page(T_two, FreshPub)) @@
    (K_stale.url :> Page(T_win, StalePub)) @@
    (K_nosent.url :> Page(S_short, FreshPub)) @@
    (K_nobody.url :> Page(<<>>, NoPub)) @@
    (K_rawdate.url :> Page(T_two, Pub("raw_date", datetime(Today, 0, 0, FALSE, 0)))) @@
    (K_blank.url :> Page(T_two, Pub("empty", NoDatetime)))

\* fetch_article_text_and_published(url): ("", None) when the fetch fails
fetch_article_text_and_published(url) ==
    IF url \in DOMAIN WebPages THEN WebPages[url] ELSE Page(<<>>, NoPub)

Response(ok, news) == [ok |-> ok, news |-> news]

Failed == Response(FALSE, <<>>)

\* thirteen news items, the last one beyond the limit of the primary query
LongNews ==
    << K_today, K_today, K_year, K_year, K_plain, K_plain, K_month, K_month,
       K_opaque, K_opaque, K_fresh, K_fresh, K_stale >>

PrimaryResponses ==
    { Failed,
      Response(TRUE, <<>>),
      Response(TRUE, << K_today, K_opaque, K_plain >>),
      Response(TRUE, << K_year, K_month, K_nourl, K_year, K_fresh >>),
      Response(TRUE, << K_stale, K_nosent, K_nobody, K_rawdate, K_blank >>),
      Response(TRUE, LongNews) }

AliasResponses ==
    { Failed,
      Response(TRUE, <<>>),
      Response(TRUE, << K_today, K_stale >>),
      Response(TRUE, << K_fresh, K_nosent, K_nobody, K_rawdate, K_blank, K_year, K_plain >>) }

\* what the price lookup does: it raises, or answers a price
PriceOutcomes == {"raises", "41.25"}

InitTicker ==
    /\ pc = "price"
    /\ ticker \in TICKERS
    /\ now = TickerNow
    /\ pub_iso = NoPub
    /\ within = FALSE
    /\ price_now = "None"
    /\ candidates = <<>>
    /\ queried = <<>>
    /\ answered = <<>>
    /\ count_after = <<>>
    /\ idx = 0
    /\ articles = <<>>
    /\ out_entries = <<>>
    /\ section = [returned |-> FALSE, lines |-> <<>>]
    /\ IdleArticle
    /\ IdleOther

\* format_ticker_section, lines 441 to 445: the price, None when the lookup raises
PriceLookup ==
    /\ pc = "price"
    /\ pc' = "search"
    /\ \E p \in PriceOutcomes : price_now' = IF p = "raises" THEN "None" ELSE p
    /\ UNCHANGED << ticker, candidates, queried, answered, count_after, idx, articles,
                    out_entries, section, articleVars, recencyVars, otherVars >>

\* process_ticker, lines 367 to 370: the query for the ticker itself
PrimaryQuery ==
    /\ pc = "search"
    /\ \E r \in PrimaryResponses :
          /\ candidates' = fetch_yahoo_candidates(r, PrimaryLimit)
          /\ answered' = news_within(r, PrimaryLimit)
    /\ count_after' = << Len(candidates') >>
    /\ queried' = << ticker >>
    /\ pc' = IF Len(candidates') < MinCandidates THEN "aliases" ELSE "fetch"
    /\ idx' = 1
    /\ UNCHANGED << ticker, price_now, articles, out_entries, section, articleVars,
                    recencyVars, otherVars >>

\* the position after one turn of a loop over aliases that is left once
\* there are candidates enough
after_alias_until_enough(n) ==
    IF n < Len(aliases(ticker)) /\ Len(candidates) < MinCandidates
    THEN "aliases" ELSE "fetch"

\* the position after one turn of the loop over aliases
after_alias(n) == IF n < Len(aliases(ticker)) THEN "aliases" ELSE "fetch"

\* process_ticker, line 379: the alias that is the ticker is passed over
SkipOwnTicker ==
    /\ pc = "aliases"
    /\ aliases(ticker)[idx] = ticker
    /\ pc' = after_alias(idx)
    /\ idx' = IF idx < Len(aliases(ticker)) THEN idx + 1 ELSE 1
    /\ UNCHANGED << ticker, price_now, candidates, queried, answered, count_after, articles,
                    out_entries, section, articleVars, recencyVars, otherVars >>

\* process_ticker, lines 380 to 386: the query for one alias
AliasQuery ==
    /\ pc = "aliases"
    /\ aliases(ticker)[idx] # ticker
    /\ \E r \in AliasResponses :
          /\ candidates' = append_new(candidates, fetch_yahoo_candidates(r, AliasLimit), 1)
          /\ answered' = answered \o news_within(r, AliasLimit)
    /\ count_after' = Append(count_after, Len(candidates'))
    /\ queried' = Append(queried, aliases(ticker)[idx])
    /\ pc' = after_alias(idx)
    /\ idx' = IF idx < Len(aliases(ticker)) THEN idx + 1 ELSE 1
    /\ UNCHANGED << ticker, price_now, articles, out_entries, section, articleVars,
                    recencyVars, otherVars >>

\* process_ticker, lines 389 to 409: one candidate fetched and filtered
FetchArticle ==
    /\ pc = "fetch"
    /\ idx <= Len(candidates)
    /\ LET c == candidates[idx]
           page == fetch_article_text_and_published(c.url)
       IN  articles' =
              IF c.url = <<>> \/ page.text = <<>> THEN articles
              ELSE IF include(c, page.pub, now) THEN Append(articles, article(c, page))
              ELSE articles
    /\ idx' = idx + 1
    /\ UNCHANGED << pc, ticker, price_now, candidates, queried, answered, count_after,
                    out_entries, section, articleVars, recencyVars, otherVars >>

\* process_ticker, lines 412 to 414: the first three articles, [] returned
\* when there is none
LimitArticles ==
    /\ pc = "fetch"
    /\ idx > Len(candidates)
    /\ articles' = slice_to(articles, MaxArticles)
    /\ pc' = IF articles' = <<>> THEN "format" ELSE "summarize"
    /\ idx' = 1
    /\ UNCHANGED << ticker, price_now, candidates, queried, answered, count_after,
                    out_entries, section, articleVars, recencyVars, otherVars >>

\* process_ticker, lines 416 to 436: one article summarised and assessed
Summarize ==
    /\ pc = "summarize"
    /\ idx <= Len(articles)
    /\ out_entries' = Append(out_entries, entry_of(articles[idx]))
    /\ idx' = idx + 1
    /\ pc' = IF idx = Len(articles) THEN "format" ELSE "summarize"
    /\ UNCHANGED << ticker, price_now, candidates, queried, answered, count_after, articles,
                    section, articleVars, recencyVars, otherVars >>

\* format_ticker_section, lines 446 to 533: the section returned
FormatSection ==
    /\ pc = "format"
    /\ pc' = "done"
    /\ section' = [returned |-> TRUE,
                   lines |-> format_section(ticker, price_now, out_entries)]
    /\ UNCHANGED << ticker, price_now, candidates, queried, answered, count_after, idx,
                    articles, out_entries, articleVars, recencyVars, otherVars >>

NextTicker ==
    \/ PriceLookup
    \/ PrimaryQuery
    \/ SkipOwnTicker
    \/ AliasQuery
    \/ FetchArticle
    \/ LimitArticles
    \/ Summarize
    \/ FormatSection

SpecTicker == InitTicker /\ [][NextTicker]_vars

(***************************************************************************)
(* daily_report.main: one run of the script.  The names of the module      *)
(* datetime are looked up the way Python looks them up: an attribute that  *)
(* the object does not have raises AttributeError.                         *)
(***************************************************************************)
\* TICKERS.items(), in the order of the dict
TickerOrder == << "IONQ", "FLY", "LUNR" >>

\* the module bound to the name datetime by 'import datetime' (line 18)
datetime_module == << "datetime" >>

\* the public names of the module datetime
datetime_module_names ==
    { "MAXYEAR", "MINYEAR", "UTC", "date", "datetime", "datetime_CAPI", "sys", "time",
      "timedelta", "timezone", "tzinfo" }

\* the public attributes of the class datetime.datetime
datetime_class_names ==
    { "astimezone", "combine", "ctime", "date", "day", "dst", "fold", "fromisocalendar",
      "fromisoformat", "fromordinal", "fromtimestamp", "hour", "isocalendar", "isoformat",
      "isoweekday", "max", "microsecond", "min", "minute", "month", "now", "replace",
      "resolution", "second", "strftime", "strptime", "time", "timestamp", "timetuple",
      "timetz", "today", "toordinal", "tzinfo", "tzname", "utcfromtimestamp", "utcnow",
      "utcoffset", "utctimetuple", "weekday", "year" }

\* the attributes of an object, the object given by the path that leads to it
attributes(obj) ==
    IF obj = datetime_module THEN datetime_module_names
    ELSE IF obj = << "datetime", "datetime" >> THEN datetime_class_names
    ELSE {}

AttributeError == << "AttributeError" >>

\* obj.n1.n2...: the object reached, or AttributeError at the first name missing
RECURSIVE getattr(_, _)
getattr(obj, names) ==
    IF names = <<>> THEN obj
    ELSE IF Head(names) \in attributes(obj)
         THEN getattr(Append(obj, Head(names)), Tail(names))
         ELSE AttributeError

\* line 537: datetime.datetime.datetime.utcnow
utcnow_of_build_full_report == getattr(datetime_module, << "datetime", "datetime", "utcnow" >>)

\* line 446: datetime.datetime.utcnow
utcnow_of_format_ticker_section == getattr(datetime_module, << "datetime", "utcnow" >>)

\* what the news search answers in a run: nothing but failures, a few items
\* for every query, or a long list for every query
SearchBehaviours == {"fails", "short", "long"}

search(w, query, primary) ==
    IF w.search = "fails" THEN Failed
    ELSE IF w.search = "long" THEN Response(TRUE, LongNews)
    ELSE IF primary THEN Response(TRUE, << K_today, K_opaque, K_plain >>)
    ELSE Response(TRUE, << K_fresh, K_nosent, K_today >>)

\* what the external collaborators do in one run
Worlds ==
    [ price : [TICKERS -> PriceOutcomes],
      search : SearchBehaviours,
      indices : {"raises", "answers"},
      market_news : {"raises", "none", "two"},
      telegram : {"no_credentials", "post_raises", "status_200", "status_500"} ]

\* process_ticker, lines 378 to 386, as one value: the candidates after the
\* aliases from the k-th on have been queried
RECURSIVE query_aliases(_, _, _, _)
query_aliases(w, t, cands, k) ==
    IF k > Len(aliases(t)) THEN cands
    ELSE IF aliases(t)[k] = t THEN query_aliases(w, t, cands, k + 1)
    ELSE query_aliases(w, t,
             append_new(cands, fetch_yahoo_candidates(search(w, aliases(t)[k], FALSE),
                                                      AliasLimit), 1),
             k + 1)

\* process_ticker, lines 389 to 409, as one value
RECURSIVE fetch_articles(_, _)
fetch_articles(cands, k) ==
    IF k > Len(cands) THEN <<>>
    ELSE LET c == cands[k]
             page == fetch_article_text_and_published(c.url)
         IN  (IF c.url # <<>> /\ page.text # <<>> /\ include(c, page.pub, TickerNow)
              THEN << article(c, page) >> ELSE <<>>)
             \o fetch_articles(cands, k + 1)

RECURSIVE entries_of(_)
entries_of(arts) ==
    IF arts = <<>> THEN <<>> ELSE << entry_of(Head(arts)) >> \o entries_of(Tail(arts))

\* process_ticker(t) in the world w
process_ticker(t, w) ==
    LET first == fetch_yahoo_candidates(search(w, t, TRUE), PrimaryLimit)
        cands == IF Len(first) < MinCandidates THEN query_aliases(w, t, first, 1) ELSE first
    IN  entries_of(slice_to(fetch_articles(cands, 1), MaxArticles))

\* format_ticker_section(t, avg) in the world w
format_ticker_section(t, w) ==
    IF utcnow_of_format_ticker_section = AttributeError THEN AttributeError
    ELSE format_section(t, IF w.price[t] = "raises" THEN "None" ELSE w.price[t],
                        process_ticker(t, w))

\* a part of the report: its kind, the ticker of a section, its lines
Part(kind, of, lines) == [kind |-> kind, of |-> of, lines |-> lines]

\* lines 540 to 546
market_line(w) ==
    Part("market_line", "none",
         << Line("market", << IF w.indices = "raises" THEN "no data" ELSE "indices" >>) >>)

\* lines 548 to 584
market_news_block(w) ==
    Part("market_news", "none",
         << Line("market_news",
                 << IF w.market_news = "raises" THEN "error"
                    ELSE IF w.market_news = "none" THEN "no macro news"
                    ELSE "two titles" >>) >>)

Raised(e) == [returned |-> FALSE, exception |-> e, parts |-> <<>>]

Returned(parts) == [returned |-> TRUE, exception |-> "none", parts |-> parts]

\* build_full_report() in the world w: the parts of the report in their
\* order, or the exception that leaves the function
build_full_report(w) ==
    IF utcnow_of_build_full_report = AttributeError THEN Raised("AttributeError")
    ELSE Returned(<< Part("header", "none", <<>>), market_line(w), market_news_block(w) >>
                  \o Tuple([k \in 1..Len(TickerOrder) |->
                               Part("section", TickerOrder[k],
                                    format_ticker_section(TickerOrder[k], w))],
                           Len(TickerOrder))
                  \o << Part("final_note", "none", <<>>) >>)

\* send_to_telegram(text): the value returned
send_to_telegram(parts, w) ==
    IF w.telegram = "status_200" THEN "True" ELSE "False"

InitMain ==
    /\ pc = "main"
    /\ world \in Worlds
    /\ exit_status = "none"
    /\ report = [returned |-> FALSE, parts |-> <<>>]
    /\ delivery = "none"
    /\ IdleArticle
    /\ IdleRecency
    /\ IdleTicker
    /\ IdleAlerts

\* main, lines 631 to 640: an exception of build_full_report is caught
\* nowhere and ends the run
Main ==
    /\ pc = "main"
    /\ pc' = "exited"
    /\ LET r == build_full_report(world)
       IN  /\ report' = [returned |-> r.returned, parts |-> r.parts]
           /\ exit_status' = IF r.returned THEN "returned" ELSE r.exception
           /\ delivery' = IF r.returned THEN send_to_telegram(r.parts, world) ELSE "none"
    /\ UNCHANGED << world, articleVars, recencyVars, tickerVars, alertVars >>

SpecMain == InitMain /\ [][Main]_vars

(***************************************************************************)
(* realtime_check.py: runs of main, one after the other, the status saved  *)
(* by a run being the status the next run loads.  Prices are in            *)
(* ten-thousandths of a dollar, the precision of round(p, 4).              *)
(***************************************************************************)
\* the runs of main that are looked at
MaxRuns == 3

\* THRESHOLDS (lines 6 to 10): 50.0, 20.0, 9.5
THRESHOLDS == [IONQ |-> 500000, FLY |-> 200000, LUNR |-> 95000]

\* TICKERS of realtime_check.py: list(THRESHOLDS.keys())
THRESHOLD_TICKERS == << "IONQ", "FLY", "LUNR" >>

\* the keywords of line 121
ALERT_KEYWORDS ==
    << <<"c","o","n","t","r","a","c","t">>,
       <<"l","a","u","n","c","h">>,
       <<"e","a","r","n","i","n","g","s">>,
       <<"a","c","q","u","i","r">>,
       <<"n","a","s","a">>,
       <<"d","e","f","e","n","s","e">>,
       <<"i","n","v","e","s","t","o","r">>,
       <<"p","a","r","t","n","e","r","s","h","i","p">>,
       <<"a","g","r","e","e","m","e","n","t">>,
       <<"m","e","r","g","e","r">>,
       <<"a","c","q","u","i","s","i","t","i","o","n">>,
       <<"d","e","l","a","y">>,
       <<"f","a","i","l","u","r","e">>,
       <<"s","u","c","c","e","s","s">> >>

\* the title length above which an article counts as significant (line 121)
LongTitle == 30

\* what get_price returns: None, or a dict with a price, which is a float and
\* may be nan (a row without a close)
NoInfo == [kind |-> "None", nan |-> FALSE, price |-> 0]

Info(p) == [kind |-> "info", nan |-> FALSE, price |-> p]

NanInfo == [kind |-> "info", nan |-> TRUE, price |-> 0]

NotAsked == [kind |-> "not asked", nan |-> FALSE, price |-> 0]

\* p <= threshold and p > threshold of floats: both false of nan
le(info, threshold) == ~info.nan /\ info.price <= threshold

gt(info, threshold) == ~info.nan /\ info.price > threshold

\* the answers of get_price(t) by kind
info_of(kind, t) ==
    IF kind = "None" THEN NoInfo
    ELSE IF kind = "nan" THEN NanInfo
    ELSE IF kind = "below" THEN Info(THRESHOLDS[t] - 1)
    ELSE IF kind = "at" THEN Info(THRESHOLDS[t])
    ELSE Info(THRESHOLDS[t] + 1)

PriceKinds == {"None", "nan", "below", "at", "above"}

\* an article of the news service: id, url and title, the empty string for a
\* key that is missing, null or empty
Article(id, url, title) == [id |-> id, url |-> url, title |-> title]

\* a keyword in the title: 'IonQ wins contract'
A_contract ==
    Article(<<"n","1">>,
            <<"x",".","c","o","/","1">>,
            <<"I","o","n","Q"," ","w","i","n","s"," ","c","o","n","t","r","a","c","t">>)

\* a short title without a keyword: 'Shares dip'
A_plain ==
    Article(<<"n","2">>,
            <<"x",".","c","o","/","2">>,
            <<"S","h","a","r","e","s"," ","d","i","p">>)

\* no id, a title of 32 characters without a keyword: 'Quarterly letter to shareholders'
A_long ==
    Article(<<>>,
            <<"x",".","c","o","/","3">>,
            <<"Q","u","a","r","t","e","r","l","y"," ","l","e","t","t","e","r"," ","t","o"," ","s","h","a","r","e","h","o","l","d","e","r","s">>)

\* a title of 30 characters without a keyword: 'Quarterly note to shareholders'
A_thirty ==
    Article(<<"n","4">>,
            <<"x",".","c","o","/","4">>,
            <<"Q","u","a","r","t","e","r","l","y"," ","n","o","t","e"," ","t","o"," ","s","h","a","r","e","h","o","l","d","e","r","s">>)

\* neither id nor url: the title stands for the id: 'NASA picks Firefly'
A_titled ==
    Article(<<>>,
            <<>>,
            <<"N","A","S","A"," ","p","i","c","k","s"," ","F","i","r","e","f","l","y">>)

\* nothing to identify it: ''
A_empty ==
    Article(<<>>,
            <<>>,
            <<>>)

\* the id of A_plain under a title with keywords: 'Shares dip after launch delay'
A_again ==
    Article(<<"n","2">>,
            <<"x",".","c","o","/","5">>,
            <<"S","h","a","r","e","s"," ","d","i","p"," ","a","f","t","e","r"," ","l","a","u","n","c","h"," ","d","e","l","a","y">>)

NewsResponses ==
    { <<>>,
      << A_contract, A_plain >>,
      << A_long, A_contract, A_again >>,
      << A_titled, A_empty, A_thirty, A_titled >> }

\* aid of line 112: a.get("id") or (a.get("url") or a.get("title"))
article_id(a) == IF a.id # <<>> THEN a.id ELSE IF a.url # <<>> THEN a.url ELSE a.title

\* the test of line 121 on the title
significant(title) ==
    \/ Len(title) > LongTitle
    \/ \E k \in 1..Len(ALERT_KEYWORDS) : Contains(ALERT_KEYWORDS[k], lower(title))

\* load_status(): the content of the file, the default when there is no file
load_status(file) ==
    IF file.exists
    THEN [price_alerts |-> file.price_alerts, news_ids |-> file.news_ids]
    ELSE [price_alerts |-> <<>>, news_ids |-> {}]

\* save_status(status): the file after json.dump
save_status(st) ==
    [exists |-> TRUE, price_alerts |-> st.price_alerts, news_ids |-> st.news_ids]

\* status.get("price_alerts", {}).get(t, False)
sent_flag(st, t) == IF t \in DOMAIN st.price_alerts THEN st.price_alerts[t] ELSE FALSE

\* status.setdefault("price_alerts", {})[t] = value
set_flag(st, t, value) == [st EXCEPT !.price_alerts = (t :> value) @@ @]

\* a price alert for every price at or under the threshold, the flag ignored
alert_due_whatever_sent(info, threshold, sent) == le(info, threshold)

\* the test of line 97
alert_due(info, threshold, sent) == le(info, threshold) /\ ~sent

\* the test of line 103
reset_due(info, threshold, sent) == gt(info, threshold) /\ sent

\* an id marked as seen only when its alert was sent
add_seen_when_alerted(ids, aid, alerted) == IF alerted THEN ids \cup {aid} ELSE ids

\* seen.add(aid) of line 125
add_seen(ids, aid, alerted) == ids \cup {aid}

\* a call of send_telegram: the kind of message, its ticker, its article id
Send(kind, t, aid) == [kind |-> kind, ticker |-> t, aid |-> aid]

\* the services during the runs: the kinds of answer of get_price and the
\* answers of get_news_for.  Every kind of price with little news, or every
\* answer of the news with few kinds of price
PriceEnvironment == [prices |-> PriceKinds, news |-> { <<>>, << A_contract >> }]

NewsEnvironment == [prices |-> {"None", "at"}, news |-> NewsResponses]

InitRealtime(env) ==
    /\ pc = "idle"
    /\ environment = env
    /\ status_file = [exists |-> FALSE, price_alerts |-> <<>>, news_ids |-> {}]
    /\ status = load_status(status_file)
    /\ updated = FALSE
    /\ runs = 0
    /\ tick = 0
    /\ pending = <<>>
    /\ seen = {}
    /\ observed = [t \in Range(THRESHOLD_TICKERS) |-> NotAsked]
    /\ sends = <<>>
    /\ since_alert = [t \in Range(THRESHOLD_TICKERS) |-> "no alert"]
    /\ news_alerted = {}
    /\ encountered = {}
    /\ IdleArticle
    /\ IdleRecency
    /\ IdleTicker
    /\ IdleReport

\* main, lines 83 to 85: a run starts and loads the status
StartRun ==
    /\ pc = "idle"
    /\ runs < MaxRuns
    /\ runs' = runs + 1
    /\ status' = load_status(status_file)
    /\ updated' = FALSE
    /\ tick' = 1
    /\ observed' = [t \in Range(THRESHOLD_TICKERS) |-> NotAsked]
    /\ sends' = <<>>
    /\ encountered' = {}
    /\ pc' = "price"
    /\ UNCHANGED << environment, status_file, pending, seen, since_alert, news_alerted,
                    articleVars, recencyVars, tickerVars, reportVars >>

\* main, lines 88 to 105: one turn of the loop of the price alerts
PriceAlert ==
    /\ pc = "price"
    /\ LET t == THRESHOLD_TICKERS[tick]
           threshold == THRESHOLDS[t]
           sent == sent_flag(status, t)
       IN  \E kind \in environment.prices :
              LET info == info_of(kind, t)
                  asked == info.kind # "None"
                  alert == asked /\ alert_due(info, threshold, sent)
                  reset == asked /\ reset_due(info, threshold, sent)
              IN  /\ observed' = [observed EXCEPT ![t] = info]
                  /\ sends' = IF alert THEN Append(sends, Send("price", t, <<>>)) ELSE sends
                  /\ status' = IF reset THEN set_flag(status, t, FALSE)
                               ELSE IF alert THEN set_flag(status, t, TRUE)
                               ELSE status
                  /\ updated' = (updated \/ alert \/ reset)
                  /\ since_alert' =
                        [since_alert EXCEPT
                            ![t] = IF alert THEN "alerted"
                                   ELSE IF asked /\ gt(info, threshold) /\ @ = "alerted"
                                        THEN "above seen"
                                   ELSE @]
    /\ tick' = IF tick < Len(THRESHOLD_TICKERS) THEN tick + 1 ELSE 1
    /\ pc' = IF tick < Len(THRESHOLD_TICKERS) THEN "price" ELSE "news"
    /\ UNCHANGED << environment, status_file, runs, pending, seen, news_alerted, encountered,
                    articleVars, recencyVars, tickerVars, reportVars >>

\* main, lines 109 and 110: the articles of a ticker and the set seen
GetNews ==
    /\ pc = "news"
    /\ \E r \in environment.news : pending' = r
    /\ seen' = status.news_ids
    /\ pc' = "article"
    /\ UNCHANGED << environment, status_file, status, updated, runs, tick, observed, sends,
                    since_alert, news_alerted, encountered,
                    articleVars, recencyVars, tickerVars, reportVars >>

\* main, lines 111 to 126: one turn of the loop over the articles
NewsArticle ==
    /\ pc = "article"
    /\ pending # <<>>
    /\ LET a == Head(pending)
           aid == article_id(a)
           fresh == aid # <<>> /\ aid \notin seen
           alert == fresh /\ significant(a.title)
       IN  /\ sends' = IF alert
                       THEN Append(sends, Send("news", THRESHOLD_TICKERS[tick], aid))
                       ELSE sends
           /\ seen' = IF fresh THEN add_seen(seen, aid, alert) ELSE seen
           /\ updated' = (updated \/ fresh)
           /\ news_alerted' = IF alert THEN news_alerted \cup {aid} ELSE news_alerted
           /\ encountered' = IF aid # <<>> THEN encountered \cup {aid} ELSE encountered
    /\ pending' = Tail(pending)
    /\ UNCHANGED << pc, environment, status_file, status, runs, tick, observed, since_alert,
                    articleVars, recencyVars, tickerVars, reportVars >>

\* main, line 127: status["news_ids"] = list(seen); the order of the list is
\* that of the set and nothing reads it
StoreSeen ==
    /\ pc = "article"
    /\ pending = <<>>
    /\ status' = [status EXCEPT !.news_ids = seen]
    /\ tick' = IF tick < Len(THRESHOLD_TICKERS) THEN tick + 1 ELSE 1
    /\ pc' = IF tick < Len(THRESHOLD_TICKERS) THEN "news" ELSE "snapshot"
    /\ UNCHANGED << environment, status_file, updated, runs, pending, seen, observed, sends,
                    since_alert, news_alerted, encountered,
                    articleVars, recencyVars, tickerVars, reportVars >>

\* main, lines 131 to 139: the snapshot, sent when the minute is 0
Snapshot ==
    /\ pc = "snapshot"
    /\ \E top_of_hour \in BOOLEAN :
          sends' = IF top_of_hour THEN Append(sends, Send("snapshot", "none", <<>>))
                   ELSE sends
    /\ pc' = "save"
    /\ UNCHANGED << environment, status_file, status, updated, runs, tick, pending, seen,
                    observed, since_alert, news_alerted, encountered,
                    articleVars, recencyVars, tickerVars, reportVars >>

\* main, lines 141 to 143: the status saved when it was updated; the run ends
SaveStatus ==
    /\ pc = "save"
    /\ status_file' = IF updated THEN save_status(status) ELSE status_file
    /\ pc' = "idle"
    /\ UNCHANGED << environment, status, updated, runs, tick, pending, seen, observed, sends,
                    since_alert, news_alerted, encountered,
                    articleVars, recencyVars, tickerVars, reportVars >>

NextRealtime ==
    \/ StartRun
    \/ PriceAlert
    \/ GetNews
    \/ NewsArticle
    \/ StoreSeen
    \/ Snapshot
    \/ SaveStatus

InitPriceAlerts == InitRealtime(PriceEnvironment)

InitNewsAlerts == InitRealtime(NewsEnvironment)

SpecPriceAlerts == InitPriceAlerts /\ [][NextRealtime]_vars

SpecNewsAlerts == InitNewsAlerts /\ [][NextRealtime]_vars

(***************************************************************************)
(* Properties of extractive_summary                                        *)
(***************************************************************************)
Summarized == pc \in {"summarized", "assessed"}

\* a is a subsequence of b: the elements of a, in their order, among those of b
RECURSIVE IsSubsequence(_, _)
IsSubsequence(a, b) ==
    IF a = <<>> THEN TRUE
    ELSE IF b = <<>> THEN FALSE
    ELSE IF Head(a) = Head(b) THEN IsSubsequence(Tail(a), Tail(b))
    ELSE IsSubsequence(a, Tail(b))

NoDuplicates(seq) == \A i, j \in 1..Len(seq) : i # j => seq[i] # seq[j]

\* the scores of the sentences of the article, in tenths
Scores ==
    LET scored == scored_sentences(sents, IMPORTANT_KEYWORDS)
    IN  Tuple([i \in 1..Len(sents) |-> scored[i][2]], Len(sents))

\* with scores sc, sentence j ranks before sentence i: a higher score, or the
\* same and earlier
RanksBefore(sc, j, i) ==
    \/ sc[j] > sc[i]
    \/ sc[j] = sc[i] /\ j < i

\* C1: whenever max_sentences is not negative, the list of sentences selected
\* holds at most max_sentences sentences, the fallback to the first sentences
\* included.
C1_AtMostMaxSentences ==
    (Summarized /\ max_sentences >= 0) => Len(summary) <= max_sentences

\* C1 witness: more sentences than asked for, and exactly max_sentences kept
C1_Witness ==
    /\ Summarized
    /\ max_sentences >= 1
    /\ Len(sents) > max_sentences
    /\ Len(summary) = max_sentences

\* C2: the sentences selected are a subsequence of split_sentences(text): each
\* is one of its sentences verbatim, and they come in the order of the text.
C2_SubsequenceOfText == Summarized => IsSubsequence(summary, sents)

\* C2 witness: two sentences kept, the first with the lower score, and a
\* sentence of the text in front of the second one left out
C2_Witness ==
    /\ Summarized
    /\ Len(summary) >= 2
    /\ summary # SubSeq(sents, 1, Len(summary))
    /\ \E i, j \in 1..Len(sents) :
          /\ i < j
          /\ sents[i] = summary[1]
          /\ sents[j] = summary[2]
          /\ Scores[i] < Scores[j]

\* C3 as stated: for every max_sentences, no two sentences selected are the
\* same text.
C3_NoDuplicatesForEveryCount == Summarized => NoDuplicates(summary)

\* C3 as amended: for every max_sentences that is not negative, no two
\* sentences selected are the same text.
C3_NoDuplicates ==
    (Summarized /\ max_sentences >= 0) => NoDuplicates(summary)

\* C3 witness: a text that repeats a sentence, walked to its end, the
\* repetition left out
C3_Witness ==
    /\ Summarized
    /\ ~NoDuplicates(sents)
    /\ Len(summary) >= 2
    /\ Len(summary) < max_sentences
    /\ Len(summary) < Len(sents)

\* the reference selection of the specification: the top set holds the positions
\* of the 3 * maxCount best sentences; the sentences are walked in document order
\* and the first maxCount of the top set are kept, a text already kept skipped
ReferenceTopSet(maxCount) ==
    LET sc == Scores
    IN  {i \in 1..Len(sents) :
            Cardinality({j \in 1..Len(sents) : RanksBefore(sc, j, i)}) < 3 * maxCount}

RECURSIVE ReferenceWalk(_, _, _, _)
ReferenceWalk(topSet, maxCount, i, kept) ==
    IF i > Len(sents) \/ Len(kept) >= maxCount THEN kept
    ELSE IF i \in topSet /\ ~InList(sents[i], kept)
         THEN ReferenceWalk(topSet, maxCount, i + 1, Append(kept, sents[i]))
         ELSE ReferenceWalk(topSet, maxCount, i + 1, kept)

ReferenceSelection(maxCount) ==
    ReferenceWalk(ReferenceTopSet(maxCount), maxCount, 1, <<>>)

\* C4: for a sentence list that is not empty and max_sentences >= 1, the
\* selection is the reference selection.
C4_EqualsReferenceSelection ==
    (Summarized /\ sents # <<>> /\ max_sentences >= 1)
        => summary = ReferenceSelection(max_sentences)

\* C4 witness: more sentences than the top set takes, the first sentence of
\* the text outside the top set, and so a later one selected
C4_Witness ==
    /\ Summarized
    /\ max_sentences >= 1
    /\ Len(sents) > 3 * max_sentences
    /\ 1 \notin ReferenceTopSet(max_sentences)
    /\ summary # <<>>
    /\ summary[1] # sents[1]

\* ten distinct sentences, the 2nd, 5th and 9th with the three highest scores
Scenario4Holds ==
    /\ Summarized
    /\ max_sentences = 3
    /\ Len(sents) = 10
    /\ NoDuplicates(sents)
    /\ LET sc == Scores
       IN  \A h \in {2, 5, 9} : \A o \in (1..10) \ {2, 5, 9} : sc[h] > sc[o]

\* C5 as stated: in that scenario the summary is the 2nd, 5th and 9th sentence.
C5_SummaryIsTopThree ==
    Scenario4Holds => summary = << sents[2], sents[5], sents[9] >>

\* the sentence that ranks last of all
LastRanked ==
    LET sc == Scores
    IN  CHOOSE i \in 1..Len(sents) : \A j \in (1..Len(sents)) \ {i} : RanksBefore(sc, j, i)

\* C5 as amended: in that scenario the summary is made of the first three, in
\* document order, of the nine best sentences: the first three sentences of
\* the text but the one that ranks last.
C5_SummaryIsFirstThreeOfTopNine ==
    Scenario4Holds =>
        LET rest == SelectSeq([i \in 1..10 |-> i], LAMBDA i : i # LastRanked)
        IN  summary = << sents[rest[1]], sents[rest[2]], sents[rest[3]] >>

\* C5 witness: the scenario, with the first sentence ranking last
C5_Witness == Scenario4Holds /\ LastRanked = 1 /\ Len(summary) = 3

(***************************************************************************)
(* Properties of assess_impact                                             *)
(***************************************************************************)
KeysIn(keys, s) ==
    LET ls == lower(s)
    IN  {k \in 1..Len(keys) : Contains(keys[k], ls)}

\* the number of places of s where a keyword of keys begins
OccurrencesIn(keys, s) ==
    LET ls == lower(s)
    IN  Cardinality({<<k, i>> \in (1..Len(keys)) \X (0..Len(s)) :
                        /\ i + Len(keys[k]) <= Len(s)
                        /\ \A j \in 1..Len(keys[k]) : ls[i + j] = keys[k][j]})

LabelRule(label, favorableCount, unfavorableCount) ==
    /\ label = "up" <=> (favorableCount > unfavorableCount /\ favorableCount >= 1)
    /\ label = "down" <=> (unfavorableCount > favorableCount /\ unfavorableCount >= 1)
    /\ label = "neutral" <=> ~(favorableCount > unfavorableCount /\ favorableCount >= 1)
                             /\ ~(unfavorableCount > favorableCount /\ unfavorableCount >= 1)

\* C6 as stated: the label follows the rule on the numbers of occurrences, in
\* the summary text, of the keywords of each set.
C6_LabelByOccurrences ==
    pc = "assessed" =>
        LabelRule(impact, OccurrencesIn(pos_keys, summary_en),
                  OccurrencesIn(neg_keys, summary_en))

\* C6 as amended: the label follows the rule on the numbers of keywords of each
\* set that occur in the summary text at least once, each counted once.
C6_LabelByKeywordsPresent ==
    pc = "assessed" =>
        LabelRule(impact, Cardinality(KeysIn(pos_keys, summary_en)),
                  Cardinality(KeysIn(neg_keys, summary_en)))

\* C6 witness: a keyword of each set present, as many of one set as of the
\* other, and the label neutral
C6_Witness ==
    /\ pc = "assessed"
    /\ KeysIn(pos_keys, summary_en) # {}
    /\ Cardinality(KeysIn(pos_keys, summary_en)) = Cardinality(KeysIn(neg_keys, summary_en))
    /\ impact = "neutral"

\* the sentences of the summary text that hold a keyword of either set
KeySentenceIndexes ==
    LET ss == split_sentences(summary_en)
    IN  {i \in 1..Len(ss) : KeysIn(pos_keys, ss[i]) # {} \/ KeysIn(neg_keys, ss[i]) # {}}

ReasonsAreKeySentences ==
    LET ss == split_sentences(summary_en)
    IN  IF KeySentenceIndexes # {}
        THEN reasons = SelectSeq(ss, LAMBDA x : KeysIn(pos_keys, x) # {}
                                               \/ KeysIn(neg_keys, x) # {})
        ELSE IF ss # <<>> THEN reasons = << ss[1] >>
        ELSE reasons = <<>>

\* C7 as stated: the list returned is made of the sentences of the summary that
\* hold a keyword, in their order, and has at most 3 entries; it is the first
\* sentence alone when no sentence holds a keyword.
C7_KeySentencesAtMostThree ==
    pc = "assessed" => (ReasonsAreKeySentences /\ Len(reasons) <= 3)

\* C7 as amended: the list returned is made of all the sentences of the summary
\* that hold a keyword, in their order, however many; it is the first sentence
\* alone when no sentence holds a keyword.
C7_AllKeySentences == pc = "assessed" => ReasonsAreKeySentences

\* C7 witness: four sentences of the summary hold a keyword, four are returned
C7_Witness ==
    /\ pc = "assessed"
    /\ Cardinality(KeySentenceIndexes) > 3
    /\ Len(reasons) > 3

(***************************************************************************)
(* Properties of is_within_last_24h                                        *)
(***************************************************************************)
\* instant a is not after instant b
NotAfter(a, b) ==
    \/ a.day < b.day
    \/ a.day = b.day /\ a.sec < b.sec
    \/ a.day = b.day /\ a.sec = b.sec /\ a.us <= b.us

\* 0 <= n - t <= 24 hours
Fresh(t, n) == NotAfter(t, n) /\ NotAfter(n, [t EXCEPT !.day = @ + 1])

\* C8: when the publication time parses to an instant t (a string
\* fromisoformat reads, with a UTC offset or without one, or a string of which
\* only the date is read, t being that day's midnight), is_within_last_24h
\* returns TRUE exactly when 0 <= now - t <= 24 hours: exactly 24 hours old is
\* fresh, a microsecond older is stale, the future is stale.
C8_FreshExactlyWithin24h ==
    pc = "checked" =>
        /\ \A t \in Instants, form \in TimeForms :
              pub_iso = Pub("iso", iso_of(t, form)) => (within <=> Fresh(t, now))
        /\ \A d \in Days :
              pub_iso = Pub("raw_date", datetime(d, 0, 0, FALSE, 0))
                 => (within <=> Fresh(datetime(d, 0, 0, FALSE, 0), now))

\* C8 witness: a time written at a UTC offset other than zero, on another day
\* of the calendar than its instant, exactly 24 hours before now and found fresh
C8_Witness ==
    /\ pc = "checked"
    /\ within
    /\ pub_iso.kind = "iso"
    /\ pub_iso.dt.tz
    /\ pub_iso.dt.off # 0
    /\ \E t \in Instants :
          /\ pub_iso.dt = iso_of(t, [tz |-> TRUE, off |-> pub_iso.dt.off])
          /\ now = [t EXCEPT !.day = @ + 1]
          /\ pub_iso.dt.day # t.day

(***************************************************************************)
(* Properties of process_ticker and format_ticker_section                  *)
(***************************************************************************)
\* candidate c has been appended to articles
Kept(c) == \E k \in 1..Len(articles) : articles[k].url = c.url

\* the page of candidate c has a text and no normalized time: None, or a string
\* that was not parsed
NoNormalizedTime(c) ==
    LET page == fetch_article_text_and_published(c.url)
    IN  /\ page.text # <<>>
        /\ page.pub.kind \in {"none", "empty", "raw", "raw_date", "raw_bad_date"}

\* the title holds a recency phrase, or the title or the URL holds a year or a
\* month abbreviation
TitleOrUrlAccepted(c) ==
    \/ re_search_words(recency_phrases, c.title)
    \/ re_search_words(date_tokens, c.title)
    \/ re_search_words(date_tokens, c.url)

\* C9 as stated: in the loop over the candidates, every candidate passed whose
\* page has a text and no normalized time is in articles exactly when its title
\* or its URL is accepted by the heuristic.
C9_KeptExactlyWhenHeuristicAccepts ==
    pc = "fetch" =>
        \A j \in 1..(idx - 1) :
            NoNormalizedTime(candidates[j])
                => (Kept(candidates[j]) <=> TitleOrUrlAccepted(candidates[j]))

\* C10: when no query has answered a candidate, format_ticker_section returns
\* the header followed by the no-news line, whether the price lookup raised or
\* answered.
C10_NoCandidateGivesNoNewsLine ==
    (pc = "done" /\ candidates = <<>>) =>
        /\ section.returned
        /\ section.lines = header(ticker, price_now) \o << no_news_line >>

\* C10 witness: the price lookup raised, the ticker and its aliases were
\* queried, none answered a candidate, and the section was returned
C10_Witness ==
    /\ pc = "done"
    /\ candidates = <<>>
    /\ price_now = "None"
    /\ Len(queried) > 1
    /\ section.returned
    /\ Len(section.lines) = 2
    /\ section.lines[2] = no_news_line

(***************************************************************************)
(* Properties of the candidate list of process_ticker                      *)
(***************************************************************************)
\* the indexes of seq at which a URL that is not empty is seen for the first time
FirstSeen(seq) ==
    {k \in 1..Len(seq) :
        /\ seq[k].url # <<>>
        /\ \A j \in 1..(k - 1) : seq[j].url # seq[k].url}

\* the k-th index of the set of indexes S, in increasing order
Nth(S, k) == CHOOSE m \in S : Cardinality({j \in S : j <= m}) = k

\* C11: whatever the searches have answered so far (the ticker's query, then
\* the aliases'), candidates holds no URL twice and no empty URL, and is made
\* of the items answered, each URL at the place where it was first seen.
C11_UniqueUrlsInFirstSeenOrder ==
    /\ \A j, k \in 1..Len(candidates) :
          j # k => candidates[j].url # candidates[k].url
    /\ \A j \in 1..Len(candidates) : candidates[j].url # <<>>
    /\ Len(candidates) = Cardinality(FirstSeen(answered))
    /\ \A k \in 1..Len(candidates) :
          candidates[k] = answered[Nth(FirstSeen(answered), k)]

\* C11 witness: the ticker and an alias were queried, an alias answered a URL
\* the list already held, an item with an empty URL was answered, and the
\* aliases added a URL to the list
C11_Witness ==
    /\ pc = "fetch"
    /\ Len(queried) >= 2
    /\ \E j, k \in 1..Len(answered) :
          j < k /\ answered[j].url # <<>> /\ answered[j].url = answered[k].url
    /\ \E j \in 1..Len(answered) : answered[j].url = <<>>
    /\ Len(candidates) >= 4
    /\ Len(candidates) < Len(answered)

\* the searches are over: the run is in the loop over the candidates or beyond
Searched == pc \in {"fetch", "summarize", "format", "done"}

\* C12 as stated: no query is sent once the count of candidates has reached
\* the minimum, and the searches end only with the minimum reached or with
\* every alias queried.
C12_StopsOnceMinimumReached ==
    /\ \A k \in 1..(Len(queried) - 1) : count_after[k] < MinCandidates
    /\ Searched =>
          \/ count_after[Len(count_after)] >= MinCandidates
          \/ queried = aliases(ticker)

\* C12 as amended: the ticker is queried first; the count is tested once, after
\* that query: with the minimum reached no alias is queried, otherwise every
\* alias is, in the listed order, whatever the count becomes and whatever an
\* alias's query answers or fails with.
C12_AliasesAllOrNone ==
    /\ Len(count_after) = Len(queried)
    /\ queried = SubSeq(aliases(ticker), 1, Len(queried))
    /\ Searched =>
          queried = IF count_after[1] >= MinCandidates THEN << ticker >>
                    ELSE aliases(ticker)

\* C12 witness: the ticker's query left the count below the minimum, the first
\* alias brought it to the minimum, a later alias answered nothing new, and
\* all four aliases were queried
C12_Witness ==
    /\ Searched
    /\ Len(queried) = 5
    /\ count_after[1] < MinCandidates
    /\ count_after[2] >= MinCandidates
    /\ count_after[5] = count_after[2]

\* C13 as stated: once process_ticker has returned, an article of the list
\* articles whose text splits into no sentence has no entry in out_entries.
C13_NoEntryForArticleWithoutSentence ==
    pc \in {"format", "done"} =>
        \A k \in 1..Len(articles) :
            split_sentences(articles[k].text) = <<>>
                => \A j \in 1..Len(out_entries) : out_entries[j].url # articles[k].url

(***************************************************************************)
(* Properties of score_sentence                                            *)
(***************************************************************************)
\* the lowercase word tokens of each sentence of the article
TokensOfSentences ==
    Tuple([k \in 1..Len(sents) |-> findall_words(lower(sents[k]), 1)], Len(sents))

\* the number of times the token w occurs in the whole article
Frequency(toks, w) ==
    SumSeq(Tuple([k \in 1..Len(toks) |->
                     Cardinality({j \in 1..Len(toks[k]) : toks[k][j] = w})], Len(toks)))

\* baseScore of sentence k: the sum, over its tokens, of their frequencies
BaseScore(toks, k) ==
    SumSeq(Tuple([j \in 1..Len(toks[k]) |-> Frequency(toks, toks[k][j])], Len(toks[k])))

\* keywordBoost: the number of configured keywords occurring in the sentence
KeywordBoost(s) == Cardinality(KeysIn(IMPORTANT_KEYWORDS, s))

\* C14 as stated, in tenths: the score of every sentence is
\* baseScore * (1 + 2*keywordBoost) * lengthFactor, lengthFactor being 0.7 for
\* fewer than 6 tokens and 1.0 otherwise.
C14_ScoreIsProduct ==
    Summarized =>
        LET toks == TokensOfSentences
            sc == Scores
        IN  \A k \in 1..Len(sents) :
               sc[k] = BaseScore(toks, k) * (1 + 2 * KeywordBoost(sents[k]))
                          * (IF Len(toks[k]) < 6 THEN 7 ELSE 10)

\* C14 as amended, in tenths: the score of a sentence with no token is 0; the
\* score of any other is baseScore * (1 + 2*keywordBoost) * lengthFactor + 1,
\* lengthFactor being 0.7 for fewer than 6 tokens, 0.9 for more than 80 and
\* 1.0 otherwise.
C14_ScoreIsProductPlusOne ==
    Summarized =>
        LET toks == TokensOfSentences
            sc == Scores
        IN  \A k \in 1..Len(sents) :
               sc[k] = IF toks[k] = <<>> THEN 0
                       ELSE BaseScore(toks, k) * (1 + 2 * KeywordBoost(sents[k]))
                               * (IF Len(toks[k]) < 6 THEN 7
                                  ELSE IF Len(toks[k]) > 80 THEN 9
                                  ELSE 10)
                            + 10

\* C14 witness: an article with a sentence of more than 80 tokens that holds no
\* keyword, a sentence of fewer than 6 tokens that holds one, and a sentence
\* of no token
C14_Witness ==
    /\ Summarized
    /\ \E k \in 1..Len(sents) : TokensOfSentences[k] = <<>> /\ Scores[k] = 0
    /\ \E k \in 1..Len(sents) :
          /\ Len(TokensOfSentences[k]) > 80
          /\ KeywordBoost(sents[k]) = 0
    /\ \E k \in 1..Len(sents) :
          /\ Len(TokensOfSentences[k]) < 6
          /\ KeywordBoost(sents[k]) = 1
          /\ Scores[k] > 10

\* C15: every run of main ends with build_full_report having returned a report
\* with one section for each tracked ticker and with send_to_telegram called,
\* whatever the collaborators do; no exception ends the run
SectionsFor(t) == {k \in 1..Len(report.parts) :
                      report.parts[k].kind = "section" /\ report.parts[k].of = t}

C15_EveryRunReportsAndDelivers ==
    pc = "exited" =>
        /\ exit_status = "returned"
        /\ report.returned
        /\ \A t \in TICKERS : Cardinality(SectionsFor(t)) = 1
        /\ delivery # "none"

\* a run of realtime_check.main has ended
RunEnded == pc = "idle" /\ runs > 0

\* the step calls send_telegram with a message of this kind
NewSend(kind) ==
    /\ Len(sends') = Len(sends) + 1
    /\ sends'[Len(sends')].kind = kind

\* get_price answered a price for the ticker in this run, and the price is a number
ObservedPrice(t) == observed[t].kind = "info" /\ ~observed[t].nan

\* a price alert is sent only in a run that observes the price at or under
\* the threshold while the stored flag of the ticker is false
AlertOnlyWhenDueAndNotFlagged ==
    NewSend("price") =>
        LET t == sends'[Len(sends')].ticker
        IN  /\ observed'[t].kind = "info"
            /\ le(observed'[t], THRESHOLDS[t])
            /\ ~sent_flag(status_file, t)

\* after a run that observed a price the stored flag equals (price <= threshold)
FlagTellsPriceAtOrUnder ==
    RunEnded =>
        \A t \in Range(THRESHOLD_TICKERS) :
            ObservedPrice(t) =>
                (sent_flag(status_file, t) <=> le(observed[t], THRESHOLDS[t]))

\* no second price alert for a ticker before a run has seen its price above
\* the threshold
AboveBetweenAlerts ==
    NewSend("price") => since_alert[sends'[Len(sends')].ticker] # "alerted"

NewsAlertOnlyForNewId ==
    NewSend("news") =>
        LET aid == sends'[Len(sends')].aid
        IN  /\ aid \notin news_alerted
            /\ aid \notin status_file.news_ids
            /\ aid \notin status.news_ids
            /\ aid \notin seen

\* every id met in a run is in the saved news_ids once the run has ended
EncounteredAreSaved == RunEnded => encountered \subseteq status_file.news_ids

\* news_ids never loses an id, in the file and in the status of the run
NewsIdsOnlyGrow ==
    /\ status_file.news_ids \subseteq status_file'.news_ids
    /\ status.news_ids \subseteq status'.news_ids

\* C17: over runs of realtime_check.main with the saved status carried over,
\* and over the tickers of a run, a news alert is sent at most once per
\* article id: none for an id already in news_ids, every id met in a run is in
\* news_ids afterwards whether or not its title passed the filter, and
\* news_ids never loses an id
C17_NewsAlertOncePerId ==
    /\ []EncounteredAreSaved
    /\ [][NewsAlertOnlyForNewId /\ NewsIdsOnlyGrow]_vars

\* C17 witness: a later run has ended that met again an id alerted in an
\* earlier run, without a message for it, and an id whose title failed the
\* filter, which is saved all the same
C17_Witness ==
    /\ RunEnded
    /\ runs > 1
    /\ \E aid \in encountered \cap news_alerted :
          \A k \in 1..Len(sends) : sends[k].kind = "news" => sends[k].aid # aid
    /\ \E aid \in encountered \ news_alerted : aid \in status_file.news_ids

====
